---------------------------- MODULE Spec2Model ----------------------------
(***************************************************************************)
(* A model of shikaku: the pattern builder `either` and the katakana-to-   *)
(* vowel conversion of shikaku/utils.py, and the TextModel object of       *)
(* shikaku/textmodel.py (fit / generate / plot with its graph traversal).  *)
(*                                                                         *)
(* A Python str is a sequence of code points (integers), so that the       *)
(* code-point order Python sorts by is the order of the integers.          *)
(***************************************************************************)
EXTENDS Integers, Sequences, FiniteSets, TLC

VARIABLES
    strings,      \* either: the argument, in its iteration order
    either_out,   \* either: what the last call did ([status, pattern])
    match_out,    \* the last match of the compiled pattern against a text
    text_arg,     \* katakana_to_vowels: the argument
    vowels_out,   \* katakana_to_vowels: what the last call did
    _state_size,  \* TextModel._state_size
    _model,       \* TextModel._model: None or the markovify.Text of the last fit
    _compiled_model,  \* TextModel._compiled_model: None or a compiled Text
    fits,         \* the number of calls of fit so far
    call,         \* the last call of fit, generate or plot and its outcome
    stack,        \* plot: the frames of traverse, the innermost last
    vertices,     \* plot: the dict vertices (state -> index)
    edges,        \* plot: the list edges
    weights,      \* plot: the list weights, each a fraction <<weight, total>>
    visits        \* plot: the states line 282 registered, in order

vars_either == <<strings, either_out, match_out>>

vars_vowels == <<text_arg, vowels_out>>

vars_plot == <<stack, vertices, edges, weights, visits>>

vars_model == <<_state_size, _model, _compiled_model, fits, call, vars_plot>>

-----------------------------------------------------------------------------
(* Characters with a meaning in the pattern source.                        *)
LPAREN    == 40
RPAREN    == 41
COLON     == 58
QUESTION  == 63
LBRACK    == 91
BACKSLASH == 92
RBRACK    == 93
BAR       == 124

(* The characters re.escape prefixes with a backslash (Python >= 3.7):     *)
(* ()[]{}?*+-|^$\.&~# and the white space \t\n\r\v\f.                      *)
SpecialChars ==
    {40, 41, 91, 93, 123, 125, 63, 42, 43, 45, 124, 94, 36, 92, 46, 38, 126,
     35, 32, 9, 10, 13, 11, 12}

Range(s) == {s[i] : i \in 1..Len(s)}

(* The sequence with the elements f[1], f[2], ..., as a tuple.              *)
List(f) == f \o <<>>

(* The function f as an explicit table, each value evaluated once.         *)
Table(f) == f @@ <<>>

(* F(v), with v evaluated once.                                            *)
With(v, F(_)) == CHOOSE r \in {F(x) : x \in {v}} : TRUE

Min2(a, b) == IF a < b THEN a ELSE b

(* Python's < on str: lexicographic by code point.                         *)
LexLess(x, y) ==
    \E k \in 1..(Min2(Len(x), Len(y)) + 1) :
        /\ \A i \in 1..(k - 1) : x[i] = y[i]
        /\ \/ k > Len(x) /\ k <= Len(y)
           \/ k <= Len(x) /\ k <= Len(y) /\ x[k] < y[k]

(* The sort key (-len(x), x) of lines 60, 70 and 78.                       *)
KeyLess(x, y) ==
    \/ Len(x) > Len(y)
    \/ Len(x) = Len(y) /\ LexLess(x, y)

(* list.sort / sorted: a stable sort of s by the strict order Less.        *)
StableSort(s, Less(_, _)) ==
    LET before(j, i) ==
            \/ Less(s[j], s[i])
            \/ ~Less(s[i], s[j]) /\ j < i
        rank == [i \in 1..Len(s) |->
                    Cardinality({j \in 1..Len(s) : j # i /\ before(j, i)})]
    IN  List([k \in 1..Len(s) |-> s[CHOOSE i \in 1..Len(s) : rank[i] = k - 1]])

(* sorted(a set): the elements of the set S in the order Less.             *)
SortSet(S, Less(_, _)) ==
    LET rank == [x \in S |-> Cardinality({y \in S : Less(y, x)})]
    IN  List([k \in 1..Cardinality(S) |-> CHOOSE x \in S : rank[x] = k - 1])

(* The elements of s in the order of their first occurrence: the keys of   *)
(* a dict filled in the order of s.                                        *)
FirstOccurrences(s) ==
    LET keep == {i \in 1..Len(s) : \A j \in 1..(i - 1) : s[j] # s[i]}
        ord == SortSet(keep, LAMBDA i, j : i < j)
    IN  List([k \in 1..Len(ord) |-> s[ord[k]]])

RECURSIVE re_escape(_)
re_escape(s) ==
    IF s = <<>> THEN <<>>
    ELSE (IF Head(s) \in SpecialChars THEN <<BACKSLASH, Head(s)>>
          ELSE <<Head(s)>>) \o re_escape(Tail(s))

(* "".join(parts)                                                          *)
RECURSIVE Concat(_)
Concat(parts) ==
    IF parts = <<>> THEN <<>> ELSE Head(parts) \o Concat(Tail(parts))

(* sep.join(parts)                                                         *)
RECURSIVE Join(_, _)
Join(sep, parts) ==
    IF parts = <<>> THEN <<>>
    ELSE IF Len(parts) = 1 THEN Head(parts)
    ELSE Head(parts) \o sep \o Join(sep, Tail(parts))

-----------------------------------------------------------------------------
(* either, shikaku/utils.py lines 10-84.                                   *)

LenDesc(x, y) == Len(x) > Len(y)

(* line 23: sorted(strings, key=len, reverse=True), a stable sort.         *)
SortedStrings(ss) == StableSort(ss, LenDesc)

(* lines 27-35: the dict prefix, as its keys in insertion order and the    *)
(* set of suffixes of each key.                                            *)
PrefixKeys(ss) ==
    LET long == SelectSeq(ss, LAMBDA s : Len(s) >= 2)
        first(i) == \A j \in 1..(i - 1) : long[j][1] # long[i][1]
        idx == {i \in 1..Len(long) : first(i)}
        ord == SortSet(idx, LAMBDA i, j : i < j)
    IN  List([k \in 1..Len(ord) |-> long[ord[k]][1]])

PrefixOf(ss, c1) ==
    {Tail(ss[i]) : i \in {j \in 1..Len(ss) : Len(ss[j]) >= 2 /\ ss[j][1] = c1}}

(* lines 37-40: the keys sorted by (-len(prefix[x]), x, prefix[x]); the    *)
(* keys x are distinct, so the third component is never compared.          *)
FrozenPrefixKeys(ss) ==
    With([x \in Range(PrefixKeys(ss)) |-> Cardinality(PrefixOf(ss, x))],
         LAMBDA size :
             StableSort(PrefixKeys(ss),
                        LAMBDA x, y :
                            \/ size[x] > size[y]
                            \/ size[x] = size[y] /\ x < y))

(* P1 merging the first characters whose suffix sets are merely of the     *)
(* same size.                                                              *)
P1_MergeSameSize(ss, keys, c1) ==
    LET s1 == PrefixOf(ss, c1)
        a == <<c1>> \o SelectSeq(keys, LAMBDA c2 :
                 c1 # c2 /\ Cardinality(s1) = Cardinality(PrefixOf(ss, c2)))
    IN  IF Len(a) >= 2
        THEN <<LBRACK>>
             \o Concat([k \in 1..Len(a) |->
                          re_escape(<<SortSet(Range(a), LAMBDA x, y : x < y)[k]>>)])
             \o <<RBRACK>>
        ELSE re_escape(<<c1>>)

(* lines 47-54: the fragment for the first characters sharing s1.          *)
P1(ss, keys, c1) ==
    LET s1 == PrefixOf(ss, c1)
        a == <<c1>> \o SelectSeq(keys, LAMBDA c2 : c1 # c2 /\ s1 = PrefixOf(ss, c2))
    IN  IF Len(a) >= 2
        THEN <<LBRACK>>
             \o Concat([k \in 1..Len(a) |->
                          re_escape(<<SortSet(Range(a), LAMBDA x, y : x < y)[k]>>)])
             \o <<RBRACK>>
        ELSE re_escape(<<c1>>)

(* P2 with the suffixes of a group in plain ascending order.               *)
P2_Ascending(s1) ==
    IF Cardinality(s1) >= 2
    THEN LET srt == SortSet(s1, LexLess)
         IN  IF \E s \in s1 : Len(s) > 1
             THEN <<LPAREN, QUESTION, COLON>>
                  \o Join(<<BAR>>, [k \in 1..Len(srt) |-> re_escape(srt[k])])
                  \o <<RPAREN>>
             ELSE <<LBRACK>>
                  \o Concat([k \in 1..Len(srt) |-> re_escape(srt[k])])
                  \o <<RBRACK>>
    ELSE re_escape(CHOOSE s \in s1 : TRUE)

(* lines 55-67: the fragment for the suffix set s1.                        *)
P2(s1) ==
    IF Cardinality(s1) >= 2
    THEN IF \E s \in s1 : Len(s) > 1
         THEN LET srt == SortSet(s1, KeyLess)
              IN  <<LPAREN, QUESTION, COLON>>
                  \o Join(<<BAR>>, [k \in 1..Len(srt) |-> re_escape(srt[k])])
                  \o <<RPAREN>>
         ELSE LET srt == SortSet(s1, LexLess)
              IN  <<LBRACK>>
                  \o Concat([k \in 1..Len(srt) |-> re_escape(srt[k])])
                  \o <<RBRACK>>
    ELSE re_escape(CHOOSE s \in s1 : TRUE)

(* lines 42-70: one fragment per distinct suffix set, the first key of     *)
(* each set in frozen_prefix order standing for it, then sorted.           *)
Fragments(ss, keys) ==
    LET fresh(i) == \A j \in 1..(i - 1) : PrefixOf(ss, keys[j]) # PrefixOf(ss, keys[i])
        reps == SelectSeq(keys, LAMBDA c : \E i \in 1..Len(keys) : keys[i] = c /\ fresh(i))
    IN  List([k \in 1..Len(reps) |->
                P1(ss, keys, reps[k]) \o P2(PrefixOf(ss, reps[k]))])

Result2(ss) ==
    With(FrozenPrefixKeys(ss),
         LAMBDA keys : With(Fragments(ss, keys),
                            LAMBDA frags : StableSort(frags, KeyLess)))

(* Result1 without the sort of line 78.                                    *)
Result1_Unsorted(ss) ==
    LET ones == SelectSeq(ss, LAMBDA s : Len(s) = 1)
        esc == [k \in 1..Len(ones) |-> re_escape(ones[k])]
    IN  IF Len(esc) >= 2 THEN << <<LBRACK>> \o Concat(esc) \o <<RBRACK>> >>
        ELSE esc

(* Result1 sorting the characters before escaping them, as lines 52 and    *)
(* 65 do.                                                                  *)
Result1_SortThenEscape(ss) ==
    LET ones == SelectSeq(ss, LAMBDA s : Len(s) = 1)
        srt == StableSort(ones, LexLess)
        esc == [k \in 1..Len(srt) |-> re_escape(srt[k])]
    IN  IF Len(esc) >= 2 THEN << <<LBRACK>> \o Concat(esc) \o <<RBRACK>> >>
        ELSE esc

(* lines 72-80: the strings of length 1, escaped, sorted by (-len, x) of   *)
(* the escaped text, and put in one class when there are two or more.      *)
Result1(ss) ==
    LET ones == SelectSeq(ss, LAMBDA s : Len(s) = 1)
        esc == [k \in 1..Len(ones) |-> re_escape(ones[k])]
        srt == StableSort(esc, KeyLess)
    IN  IF Len(srt) >= 2 THEN << <<LBRACK>> \o Concat(srt) \o <<RBRACK>> >>
        ELSE srt

(* lines 82-84: the source of the compiled pattern.                        *)
either(ss) ==
    With(SortedStrings(ss),
         LAMBDA sorted : Join(<<BAR>>, Result2(sorted) \o Result1(sorted)))

-----------------------------------------------------------------------------
(* Python's re on the patterns either writes: literals, escaped literals,  *)
(* classes [...] without ranges, groups (?:...|...) and alternation, with  *)
(* the backtracking, leftmost-first semantics of re.compile(...).match     *)
(* (line 84) and fullmatch.                                                *)

NoMatch == 0

(* The index of the ] closing the class whose body starts at p[j].         *)
RECURSIVE ClassEnd(_, _)
ClassEnd(p, j) ==
    IF j > Len(p) THEN Len(p) + 1
    ELSE IF p[j] = BACKSLASH THEN ClassEnd(p, j + 2)
    ELSE IF p[j] = RBRACK THEN j
    ELSE ClassEnd(p, j + 1)

(* The characters of a class body, in the order they are written.          *)
RECURSIVE ClassMembers(_)
ClassMembers(body) ==
    IF body = <<>> THEN <<>>
    ELSE IF Head(body) = BACKSLASH
         THEN <<body[2]>> \o ClassMembers(SubSeq(body, 3, Len(body)))
    ELSE <<Head(body)>> \o ClassMembers(Tail(body))

(* The index of the ) closing the group opened before p[j], depth deep.    *)
RECURSIVE GroupEnd(_, _, _)
GroupEnd(p, j, depth) ==
    IF j > Len(p) THEN Len(p) + 1
    ELSE IF p[j] = BACKSLASH THEN GroupEnd(p, j + 2, depth)
    ELSE IF p[j] = LBRACK THEN GroupEnd(p, ClassEnd(p, j + 1) + 1, depth)
    ELSE IF p[j] = LPAREN THEN GroupEnd(p, j + 1, depth + 1)
    ELSE IF p[j] = RPAREN
         THEN IF depth = 1 THEN j ELSE GroupEnd(p, j + 1, depth - 1)
    ELSE GroupEnd(p, j + 1, depth)

(* The indices of the | of p that are outside every class and group.       *)
RECURSIVE TopBars(_, _)
TopBars(p, j) ==
    IF j > Len(p) THEN {}
    ELSE IF p[j] = BACKSLASH THEN TopBars(p, j + 2)
    ELSE IF p[j] = LBRACK THEN TopBars(p, ClassEnd(p, j + 1) + 1)
    ELSE IF p[j] = LPAREN THEN TopBars(p, GroupEnd(p, j + 1, 1) + 1)
    ELSE IF p[j] = BAR THEN {j} \cup TopBars(p, j + 1)
    ELSE TopBars(p, j + 1)

(* The alternatives of p, in order.                                        *)
SplitTop(p) ==
    LET bars == SortSet(TopBars(p, 1), LAMBDA i, j : i < j)
        n == Len(bars)
        from(k) == IF k = 1 THEN 1 ELSE bars[k - 1] + 1
        to(k) == IF k = n + 1 THEN Len(p) ELSE bars[k] - 1
    IN  List([k \in 1..(n + 1) |-> SubSeq(p, from(k), to(k))])

(* The position after the match of p at text[pos..], or NoMatch: the first *)
(* alternative (of the pattern, and of each group) that lets the rest of   *)
(* the pattern match wins; with full, the match must end the text.         *)
RECURSIVE MatchAlts(_, _, _, _, _), MatchConcat(_, _, _, _)
MatchAlts(alts, rest, text, pos, full) ==
    IF alts = <<>> THEN NoMatch
    ELSE LET r == MatchConcat(Head(alts) \o rest, text, pos, full)
         IN  IF r # NoMatch THEN r
             ELSE MatchAlts(Tail(alts), rest, text, pos, full)

MatchConcat(p, text, pos, full) ==
    IF p = <<>>
    THEN IF full /\ pos # Len(text) + 1 THEN NoMatch ELSE pos
    ELSE IF Head(p) = LPAREN
    THEN LET j == GroupEnd(p, 2, 1)
         IN  MatchAlts(SplitTop(SubSeq(p, 4, j - 1)), SubSeq(p, j + 1, Len(p)),
                       text, pos, full)
    ELSE IF Head(p) = LBRACK
    THEN LET j == ClassEnd(p, 2)
         IN  IF /\ pos <= Len(text)
                /\ text[pos] \in Range(ClassMembers(SubSeq(p, 2, j - 1)))
             THEN MatchConcat(SubSeq(p, j + 1, Len(p)), text, pos + 1, full)
             ELSE NoMatch
    ELSE IF Head(p) = BACKSLASH
    THEN IF pos <= Len(text) /\ text[pos] = p[2]
         THEN MatchConcat(SubSeq(p, 3, Len(p)), text, pos + 1, full)
         ELSE NoMatch
    ELSE IF pos <= Len(text) /\ text[pos] = Head(p)
         THEN MatchConcat(Tail(p), text, pos + 1, full)
         ELSE NoMatch

(* pattern.match(text, pos) and pattern.fullmatch(text).                   *)
re_match(pattern, text, pos) ==
    MatchAlts(SplitTop(pattern), <<>>, text, pos, FALSE)

re_fullmatch(pattern, text) ==
    MatchAlts(SplitTop(pattern), <<>>, text, 1, TRUE)

-----------------------------------------------------------------------------
(* katakana_to_vowels, shikaku/utils.py lines 87-157.                      *)

(* lines 89-95: (vowel, the characters it stands for).                     *)
to_vowel_rows1 ==
    <<<<12450, <<12459, 12469, 12479, 12490, 12495, 12510, 12516, 12521,
          12527, 12450, 12441, 12460, 12470, 12480, 12496, 12535, 12497,
          12449>>>>,
      <<12452, <<12461, 12471, 12481, 12491, 12498, 12511, 12522, 12528,
          12462, 12472, 12482, 12499, 12536, 12500, 12451>>>>,
      <<12454, <<12463, 12473, 12484, 12492, 12501, 12512, 12518, 12523,
          12464, 12474, 12485, 12502, 12532, 12503, 12453>>>>,
      <<12456, <<12465, 12475, 12486, 12493, 12504, 12513, 12524, 12529,
          12466, 12476, 12487, 12505, 12537, 12506, 12455>>>>,
      <<12458, <<12467, 12477, 12488, 12494, 12507, 12514, 12520, 12525,
          12530, 12468, 12478, 12489, 12508, 12538, 12509, 12457>>>>>>
(* lines 103-126: (vowel, first characters, second character).             *)
to_vowel_rows2 ==
    <<<<12450, <<12461, 12471, 12481, 12491, 12498, 12511, 12522, 12462,
          12472, 12482, 12499, 12536, 12500>>, 12515>>,
      <<12454, <<12461, 12471, 12481, 12491, 12498, 12511, 12522, 12462,
          12472, 12482, 12499, 12536, 12500>>, 12517>>,
      <<12458, <<12461, 12471, 12481, 12491, 12498, 12511, 12522, 12462,
          12472, 12482, 12499, 12536, 12500>>, 12519>>,
      <<12450, <<12463, 12464>>, 12526>>,
      <<12450, <<12484, 12501, 12532>>, 12449>>,
      <<12452, <<12473, 12486, 12484, 12501, 12474, 12487, 12532>>, 12451>>,
      <<12454, <<12488, 12507, 12489>>, 12453>>,
      <<12456, <<12471, 12481, 12484, 12501, 12472, 12532>>, 12455>>,
      <<12458, <<12484, 12501, 12532>>, 12457>>,
      <<12456, <<12452, 12461, 12491, 12498, 12500, 12511, 12522, 12462,
          12499>>, 12455>>,
      <<12450, <<12473, 12486, 12484, 12501, 12474, 12487, 12532>>, 12515>>,
      <<12454, <<12473, 12486, 12484, 12501, 12474, 12487, 12532>>, 12517>>,
      <<12458, <<12473, 12486, 12484, 12501, 12474, 12487, 12532>>, 12519>>,
      <<12450, <<12463, 12473, 12492, 12503, 12512, 12523, 12464, 12474,
          12502>>, 12449>>,
      <<12452, <<12454, 12463, 12492, 12503, 12512, 12523, 12464, 12502>>,
          12451>>,
      <<12456, <<12454, 12463, 12473, 12492, 12503, 12512, 12523, 12464,
          12474, 12502>>, 12455>>,
      <<12458, <<12454, 12463, 12473, 12492, 12503, 12512, 12523, 12464,
          12474, 12502>>, 12457>>>>

(* lines 96-97: (character, vowel) in the order the loop assigns them.     *)
to_vowel_items1 ==
    Concat([r \in 1..Len(to_vowel_rows1) |->
              [k \in 1..Len(to_vowel_rows1[r][2]) |->
                 <<to_vowel_rows1[r][2][k], to_vowel_rows1[r][1]>>]])

(* lines 127-128: (c + b, vowel) in the order the loop assigns them.       *)
to_vowel_items2 ==
    Concat([r \in 1..Len(to_vowel_rows2) |->
              [k \in 1..Len(to_vowel_rows2[r][2]) |->
                 << <<to_vowel_rows2[r][2][k], to_vowel_rows2[r][3]>>,
                    to_vowel_rows2[r][1]>>]])

(* A dict filled by d[key] = value for each item in order: the last        *)
(* assignment to a key stays.                                              *)
DictOf(items) ==
    Table([key \in {items[i][1] : i \in 1..Len(items)} |->
             LET last == CHOOSE i \in 1..Len(items) :
                             /\ items[i][1] = key
                             /\ \A j \in (i + 1)..Len(items) : items[j][1] # key
             IN  items[last][2]])

(* The keys of that dict in its iteration (insertion) order.               *)
DictKeys(items) ==
    FirstOccurrences(List([i \in 1..Len(items) |-> items[i][1]]))

(* line 99 *)
to_vowel_table == DictOf(to_vowel_items1)

(* line 128 *)
to_vowel_map == DictOf(to_vowel_items2)

(* line 130: either iterates over the keys of the dict.                    *)
to_vowel_keys == DictKeys(to_vowel_items2)

to_vowel_re == either(to_vowel_keys)

(* re_sub scanning its own replacements again.                             *)
RECURSIVE re_sub_Rescan(_, _, _, _)
re_sub_Rescan(pattern, repl, text, pos) ==
    IF pos > Len(text) THEN <<>>
    ELSE LET e == re_match(pattern, text, pos)
         IN  IF e # NoMatch /\ e > pos
             THEN re_sub_Rescan(pattern, repl,
                                SubSeq(text, 1, pos - 1)
                                    \o <<repl[SubSeq(text, pos, e - 1)]>>
                                    \o SubSeq(text, e, Len(text)),
                                pos)
             ELSE <<text[pos]>> \o re_sub_Rescan(pattern, repl, text, pos + 1)

(* re.sub(pattern, lambda m: repl[m.group(0)], text), from position pos:   *)
(* the leftmost match at or after pos is replaced and the scan goes on     *)
(* after it; an unmatched character is copied.  No alternative of the      *)
(* pattern is empty, so no match is.                                       *)
RECURSIVE re_sub(_, _, _, _)
re_sub(pattern, repl, text, pos) ==
    IF pos > Len(text) THEN <<>>
    ELSE LET e == re_match(pattern, text, pos)
         IN  IF e # NoMatch /\ e > pos
             THEN <<repl[SubSeq(text, pos, e - 1)]>> \o re_sub(pattern, repl, text, e)
             ELSE <<text[pos]>> \o re_sub(pattern, repl, text, pos + 1)

(* str.translate(table) *)
translate(s, table) ==
    List([i \in 1..Len(s) |->
            IF s[i] \in DOMAIN table THEN table[s[i]] ELSE s[i]])

(* line 156 *)
FirstPass(text) == re_sub(to_vowel_re, to_vowel_map, text, 1)

(* lines 156-157 *)
katakana_to_vowels(text) == translate(FirstPass(text), to_vowel_table)

MaxTextLen == 3     \* the longest text converted

(* シ ュ ク ヮ ァ ア ー イ ェ ツ                                              *)
TextAlphabet ==
    {12471, 12517, 12463, 12526, 12449, 12450, 12540, 12452, 12455, 12484}

(* The texts converted: every text over TextAlphabet up to MaxTextLen, and *)
(* every key of the two tables as a text of its own.                       *)
Texts ==
    UNION {[1..n -> TextAlphabet] : n \in 0..MaxTextLen}
        \cup DOMAIN to_vowel_map
        \cup {<<c>> : c \in DOMAIN to_vowel_table}

VowelsIdle == vowels_out = [status |-> "none", value |-> <<>>]

CallKatakanaToVowels ==
    /\ vowels_out.status = "none"
    /\ vowels_out' = [status |-> "returned", value |-> katakana_to_vowels(text_arg)]
    /\ UNCHANGED <<text_arg, vars_either, vars_model>>

-----------------------------------------------------------------------------
(* TextModel, shikaku/textmodel.py lines 120-319.                          *)

None == [none |-> TRUE]

(* markovify.chain.BEGIN and END, line 13.                                 *)
BEGIN == "___BEGIN__"
END == "___END__"

MaxWords == 2       \* the longest sentence of a training text, in words
MaxFits == 2        \* the most calls of fit on one TextModel

Tokens == {"a", "b"}

(* A word that holds the delimiter of get_state_name.                      *)
DelimitedToken == "a,b"

StateSizes == {1, 2}

(* What _preprocess_text and word_split make of a training text: its       *)
(* sentences, each a non-empty list of words.  One sentence is the word    *)
(* with the delimiter in it.                                               *)
Runs == UNION {[1..n -> Tokens] : n \in 1..MaxWords} \cup {<<DelimitedToken>>}

(* The training texts: one sentence, or two.                               *)
Corpora == {<<r>> : r \in Runs} \cup {<<r1, r2>> : r1, r2 \in Runs}

(* markovify's Chain.build, called by markovify.Text at lines 148-150:     *)
(* for each run, items = [BEGIN] * n + run + [END], and every window of n  *)
(* items is a state followed by the next item.                             *)
Transitions(corpus, n) ==
    Concat([r \in 1..Len(corpus) |->
              LET items == [k \in 1..n |-> BEGIN] \o corpus[r] \o <<END>>
              IN  [i \in 1..(Len(corpus[r]) + 1) |->
                     <<SubSeq(items, i, i + n - 1), items[i + n]>>]])

(* chain.model: state -> the (next word, count) pairs, in the order the    *)
(* words were first seen after the state.                                  *)
Build(corpus, n) ==
    LET tr == Transitions(corpus, n)
        follows(st) == SelectSeq(tr, LAMBDA t : t[1] = st)
        words(st) == FirstOccurrences(List([i \in 1..Len(follows(st)) |->
                                               follows(st)[i][2]]))
    IN  Table([st \in {tr[i][1] : i \in 1..Len(tr)} |->
                 List([k \in 1..Len(words(st)) |->
                         <<words(st)[k],
                           Cardinality({i \in 1..Len(tr) :
                                          tr[i] = <<st, words(st)[k]>>})>>])])

(* The chain of every training text, for each state size.                  *)
Chains == Table([n \in StateSizes |-> Table([corpus \in Corpora |-> Build(corpus, n)])])

(* fit without its line 153: the compiled model of the fit before stays.   *)
Fit_KeepCompiled(corpus) ==
    /\ call.status # "running"
    /\ fits < MaxFits
    /\ fits' = fits + 1
    /\ _model' = [id |-> fits + 1, state_size |-> _state_size,
                  chain |-> Chains[_state_size][corpus]]
    /\ call' = [op |-> "fit", status |-> "returned", value |-> "None"]
    /\ vertices' = <<>> /\ edges' = <<>> /\ weights' = <<>> /\ visits' = <<>>
    /\ UNCHANGED <<_state_size, _compiled_model, stack, vars_either, vars_vowels>>

(* lines 148-153 *)
Fit(corpus) ==
    /\ call.status # "running"
    /\ fits < MaxFits
    /\ fits' = fits + 1
    /\ _model' = [id |-> fits + 1, state_size |-> _state_size,
                  chain |-> Chains[_state_size][corpus]]
    /\ _compiled_model' = None
    /\ call' = [op |-> "fit", status |-> "returned", value |-> "None"]
    /\ vertices' = <<>> /\ edges' = <<>> /\ weights' = <<>> /\ visits' = <<>>
    /\ UNCHANGED <<_state_size, stack, vars_either, vars_vowels>>

(* The test of lines 189 and 249 made on the compiled model.               *)
NotTrained_Compiled == _compiled_model = None

(* lines 189-190 and 249-250 *)
NotTrained == _model = None

ValueError == [op |-> "", status |-> "raised",
               value |-> "model is not yet trained"]

(* lines 189-216: the sentence make_sentence returns is a str or None; m   *)
(* of line 211, the model that made it, is kept with the call.             *)
Generate(sentence) ==
    /\ call.status # "running"
    /\ IF NotTrained
       THEN /\ call' = [ValueError EXCEPT !.op = "generate"]
            /\ UNCHANGED _compiled_model
       ELSE /\ _compiled_model' =
                  IF _compiled_model = None
                  THEN [of |-> _model.id, patched |-> TRUE]
                  ELSE _compiled_model
            /\ call' = [op |-> "generate", status |-> "returned",
                        value |-> sentence, m |-> _compiled_model']
    /\ vertices' = <<>> /\ edges' = <<>> /\ weights' = <<>> /\ visits' = <<>>
    /\ UNCHANGED <<_state_size, _model, fits, stack, vars_either, vars_vowels>>

(* lines 260-263 *)
beginning_state(n) == [k \in 1..n |-> BEGIN]
ending_state == <<END>>

(* lines 290-293 *)
next_state(state, next_word) ==
    IF next_word = END THEN ending_state ELSE Tail(state) \o <<next_word>>

(* The number of transitions in place of the sum of their weights.         *)
total_weight_Count(items) == Len(items)

(* line 287: sum(m[state].values()) *)
RECURSIVE total_weight(_)
total_weight(items) ==
    IF items = <<>> THEN 0 ELSE Head(items)[2] + total_weight(Tail(items))

(* traverse without its memo.                                              *)
InVertices_Never(state, vs) == FALSE

(* line 280 *)
InVertices(state, vs) == state \in DOMAIN vs

Frame(state) == [state |-> state, k |-> 0, called |-> FALSE]

Top == stack[Len(stack)]

Pop == SubSeq(stack, 1, Len(stack) - 1)

(* lines 249-298: plot raises, or starts traverse(beginning_state).        *)
Plot ==
    /\ call.status # "running"
    /\ vertices' = <<>> /\ edges' = <<>> /\ weights' = <<>> /\ visits' = <<>>
    /\ IF NotTrained
       THEN /\ call' = [ValueError EXCEPT !.op = "plot"]
            /\ UNCHANGED stack
       ELSE /\ call' = [op |-> "plot", status |-> "running", value |-> "None"]
            /\ stack' = <<Frame(beginning_state(_model.state_size))>>
    /\ UNCHANGED <<_state_size, _model, _compiled_model, fits, vars_either,
                   vars_vowels>>

(* lines 280-287: the entry of traverse(state).                            *)
TraverseEnter ==
    /\ stack # <<>>
    /\ Top.k = 0
    /\ IF InVertices(Top.state, vertices)
       THEN /\ stack' = Pop
            /\ UNCHANGED <<vertices, visits>>
       ELSE /\ vertices' = (Top.state :> Cardinality(DOMAIN vertices)) @@ vertices
            /\ visits' = Append(visits, Top.state)
            /\ IF Top.state \notin DOMAIN _model.chain
               THEN stack' = Pop
               ELSE stack' = [stack EXCEPT ![Len(stack)].k = 1]
    /\ UNCHANGED <<_state_size, _model, _compiled_model, fits, call, edges,
                   weights, vars_either, vars_vowels>>

(* The loop of traverse recording the edge where it finds it, before the   *)
(* recursive call: the index of a state not yet registered is the one the  *)
(* call gives it.                                                          *)
TraverseCall_PreOrder ==
    /\ stack # <<>>
    /\ Top.k >= 1
    /\ ~Top.called
    /\ LET items == _model.chain[Top.state]
       IN  IF Top.k > Len(items)
           THEN /\ stack' = Pop
                /\ UNCHANGED <<edges, weights>>
           ELSE LET state == next_state(Top.state, items[Top.k][1])
                    index == IF InVertices(state, vertices) THEN vertices[state]
                             ELSE Cardinality(DOMAIN vertices)
                IN  /\ edges' = Append(edges, <<vertices[Top.state], index>>)
                    /\ weights' = Append(weights, <<items[Top.k][2],
                                                    total_weight(items)>>)
                    /\ stack' = Append([stack EXCEPT ![Len(stack)].k = @ + 1],
                                       Frame(state))
    /\ UNCHANGED <<_state_size, _model, _compiled_model, fits, call,
                   vertices, visits, vars_either, vars_vowels>>

(* lines 289-294: the recursive call for the k-th item of m[state].        *)
TraverseCall ==
    /\ stack # <<>>
    /\ Top.k >= 1
    /\ ~Top.called
    /\ LET item == _model.chain[Top.state][Top.k]
       IN  stack' = Append([stack EXCEPT ![Len(stack)].called = TRUE],
                           Frame(next_state(Top.state, item[1])))
    /\ UNCHANGED <<_state_size, _model, _compiled_model, fits, call,
                   vertices, edges, weights, visits, vars_either, vars_vowels>>

(* lines 295-296, after the call returned: the edge and its weight are     *)
(* appended, and the loop goes on or traverse returns.                     *)
TraverseReturn ==
    /\ stack # <<>>
    /\ Top.k >= 1
    /\ Top.called
    /\ LET items == _model.chain[Top.state]
           item == items[Top.k]
       IN  /\ edges' = Append(edges, <<vertices[Top.state],
                                      vertices[next_state(Top.state, item[1])]>>)
           /\ weights' = Append(weights, <<item[2], total_weight(items)>>)
           /\ stack' = IF Top.k < Len(items)
                       THEN [stack EXCEPT ![Len(stack)] =
                                [@ EXCEPT !.k = @ + 1, !.called = FALSE]]
                       ELSE Pop
    /\ UNCHANGED <<_state_size, _model, _compiled_model, fits, call,
                   vertices, visits, vars_either, vars_vowels>>

(* line 277: ",".join(s) *)
RECURSIVE join(_)
join(s) == IF Len(s) = 1 THEN s[1] ELSE s[1] \o "," \o join(Tail(s))

(* lines 274-276: the leading BEGINs of a state that is not all BEGIN are  *)
(* deleted.                                                                *)
RECURSIVE strip(_)
strip(s) == IF Head(s) = BEGIN THEN strip(Tail(s)) ELSE s

(* lines 269-277 *)
get_state_name(state) ==
    IF \A k \in 1..Len(state) : state[k] = BEGIN THEN "BEGIN"
    ELSE IF \E k \in 1..Len(state) : state[k] = END THEN "END"
    ELSE join(strip(state))

(* A graph with one vertex for each label: the states of equal label are   *)
(* one vertex, the one of the first of them.                               *)
Graph_MergedLabels ==
    LET names == FirstOccurrences(List([i \in 1..Len(visits) |->
                                          get_state_name(visits[i])]))
        index(v) == CHOOSE i \in 1..Len(names) :
                        names[i] = get_state_name(visits[v + 1])
    IN  [vcount |-> Len(names),
         es |-> List([e \in 1..Len(edges) |->
                        <<index(edges[e][1]) - 1, index(edges[e][2]) - 1>>]),
         vertex_label |-> names,
         edge_label |-> weights]

(* lines 302-317: ig.Graph(len(vertices), edges, directed=True), drawn     *)
(* with the labels of the states in the order of vertices and the weights  *)
(* as edge labels.                                                         *)
Graph ==
    [vcount |-> Cardinality(DOMAIN vertices),
     es |-> edges,
     vertex_label |-> List([i \in 1..Len(visits) |-> get_state_name(visits[i])]),
     edge_label |-> weights]

(* lines 300-319: the graph is drawn from vertices, edges and weights, on  *)
(* the axes that plot returns.                                             *)
PlotReturn ==
    /\ stack = <<>>
    /\ call.status = "running"
    /\ call' = [op |-> "plot", status |-> "returned", value |-> "Axes",
                graph |-> Graph]
    /\ UNCHANGED <<_state_size, _model, _compiled_model, fits, vars_plot,
                   vars_either, vars_vowels>>

ModelIdle ==
    /\ _model = None
    /\ _compiled_model = None
    /\ fits = 0
    /\ call = [op |-> "none", status |-> "none", value |-> "None"]
    /\ stack = <<>>
    /\ vertices = <<>>
    /\ edges = <<>>
    /\ weights = <<>>
    /\ visits = <<>>

(* What make_sentence may return: None, or a str.                          *)
Sentences == {"None", "sentence"}

-----------------------------------------------------------------------------
(* Calls of either and of the compiled pattern.                            *)

MaxStrings == 3     \* the longest argument list, as a sequence
MaxSetSize == 4     \* the largest argument, as a set

(* "a" "b" "|" "ab" "ad" "ac" "bc" "bd" "abc" "a|"                         *)
StringPool ==
    {<<97>>, <<98>>, <<124>>, <<97, 98>>, <<97, 100>>, <<97, 99>>,
     <<98, 99>>, <<98, 100>>, <<97, 98, 99>>, <<97, 124>>}

(* "" "c" "abd" "ab|" "b|"                                                 *)
TextPool ==
    StringPool \cup {<<>>, <<99>>, <<97, 98, 100>>, <<97, 98, 124>>, <<98, 124>>}

Lists == UNION {[1..n -> StringPool] : n \in 0..MaxStrings}

Reverse(s) == List([k \in 1..Len(s) |-> s[Len(s) + 1 - k]])

(* A set of strings in one of two iteration orders.                        *)
Enumerations ==
    UNION {{SortSet(S, KeyLess), Reverse(SortSet(S, KeyLess))} :
             S \in {T \in SUBSET StringPool : Cardinality(T) <= MaxSetSize}}

NotCalled == [status |-> "none", pattern |-> <<>>]

NotMatched ==
    [status |-> "none", subject |-> <<>>, match_end |-> NoMatch,
     full_end |-> NoMatch]

EitherIdle ==
    /\ either_out = NotCalled
    /\ match_out = NotMatched

(* either(strings): the function has no raise of its own, and re.compile   *)
(* accepts every source it writes, so the call returns.                    *)
CallEither ==
    /\ either_out.status = "none"
    /\ either_out' = [status |-> "returned", pattern |-> either(strings)]
    /\ UNCHANGED <<strings, match_out, vars_vowels, vars_model>>

(* pattern.match(t) and pattern.fullmatch(t) on the returned pattern.      *)
CallMatch(t) ==
    /\ either_out.status = "returned"
    /\ match_out' = [status |-> "done", subject |-> t,
                      match_end |-> re_match(either_out.pattern, t, 1),
                      full_end |-> re_fullmatch(either_out.pattern, t)]
    /\ UNCHANGED <<strings, either_out, vars_vowels, vars_model>>

vars == <<vars_either, vars_vowels, vars_model>>

-----------------------------------------------------------------------------
(* Claims about either.                                                    *)

Returned == either_out.status = "returned"
Matched == match_out.status = "done"

NoDuplicates(ss) == \A i, j \in 1..Len(ss) : ss[i] = ss[j] => i = j

Reorderings(ss) ==
    {List([k \in 1..Len(ss) |-> ss[f[k]]]) :
        f \in {g \in [1..Len(ss) -> 1..Len(ss)] :
                 \A i, j \in 1..Len(ss) : g[i] = g[j] => i = j}}

(* The argument with every repetition of an earlier element removed.       *)
Dedup(ss) == FirstOccurrences(ss)

(* The strings of length 1 of the argument, each as often as it occurs.    *)
Ones(ss) == SelectSeq(ss, LAMBDA x : Len(x) = 1)

Count(s, x) == Cardinality({i \in 1..Len(s) : s[i] = x})

LastAlt(pattern) == SplitTop(pattern)[Len(SplitTop(pattern))]

(* C1: re.match of either(S) against a member s of S, at position 0,       *)
(* succeeds and matches all of s.                                          *)
C1_MatchesEveryMember ==
    (Matched /\ match_out.subject \in Range(strings))
        => match_out.match_end = Len(match_out.subject) + 1

(* "abc" is matched whole although "a", "ab" and "a|" are in the set too.  *)
C1_Witness ==
    /\ Matched
    /\ {<<97>>, <<97, 98>>, <<97, 98, 99>>, <<97, 124>>} = Range(strings)
    /\ match_out.subject = <<97, 98, 99>>
    /\ match_out.match_end = 4

(* C2: the pattern source does not depend on the iteration order of a      *)
(* collection of distinct strings.                                         *)
C2_OrderIndependent ==
    (Returned /\ NoDuplicates(strings))
        => \A q \in Reorderings(strings) : either(q) = either_out.pattern

(* ["b", "ad", "a"] gives "ad|[ab]".                                       *)
C2_Witness ==
    /\ Returned
    /\ strings = << <<98>>, <<97, 100>>, <<97>> >>
    /\ either_out.pattern = <<97, 100, BAR, LBRACK, 97, 98, RBRACK>>

(* C3: either of an empty collection raises and returns no pattern.        *)
C3_EmptyRaises ==
    (strings = <<>> /\ either_out.status # "none")
        => either_out.status = "raised"

(* C4: repeated elements do not change the pattern source.                 *)
C4_DuplicatesRemoved ==
    Returned => either_out.pattern = either(Dedup(strings))

(* C9 as stated: the pattern compiled from {"ad", "bc"} covers "bd".       *)
C9_CoversBd ==
    (/\ Matched
     /\ Range(strings) = {<<97, 100>>, <<98, 99>>}
     /\ match_out.subject = <<98, 100>>)
        => match_out.full_end # NoMatch

(* C9, amended: the pattern compiled from a non-empty collection matches   *)
(* in full no string that is not in the collection.                        *)
C9_NoOvermatch ==
    (Matched /\ strings # <<>> /\ match_out.full_end # NoMatch)
        => match_out.subject \in Range(strings)

(* {"ad", "bc"} compiles to "ad|bc", which does not match "bd".            *)
C9_Witness ==
    /\ Matched
    /\ Range(strings) = {<<97, 100>>, <<98, 99>>}
    /\ either_out.pattern = <<97, 100, BAR, 98, 99>>
    /\ match_out.subject = <<98, 100>>
    /\ match_out.full_end = NoMatch

(* The last alternative is the literal of the one string of length 1, or   *)
(* one class of all of them, its members in the order Before.              *)
LastAltIsOnes(Before(_, _)) ==
    LET ones == Ones(strings)
        last == LastAlt(either_out.pattern)
        mem == ClassMembers(SubSeq(last, 2, Len(last) - 1))
    IN  /\ Len(ones) = 1 => last = re_escape(ones[1])
        /\ Len(ones) >= 2 =>
             /\ Head(last) = LBRACK
             /\ ClassEnd(last, 2) = Len(last)
             /\ SubSeq(last, 2, Len(last) - 1) = re_escape(mem)
             /\ Len(mem) = Len(ones)
             /\ \A i \in 1..Len(ones) : Count(mem, ones[i][1]) = Count(ones, ones[i])
             /\ \A i, j \in 1..Len(mem) : i < j => ~Before(mem[j], mem[i])

EscapedFirst(x, y) ==
    \/ x \in SpecialChars /\ y \notin SpecialChars
    \/ (x \in SpecialChars <=> y \in SpecialChars) /\ x < y

-----------------------------------------------------------------------------
(* Claims about katakana_to_vowels.                                        *)

(* One scan of t from pos: a key of the two-character table is replaced by *)
(* its vowel and skipped; any other character by its image in the          *)
(* one-character table, or by itself.                                      *)
RECURSIVE OneScan(_, _)
OneScan(t, pos) ==
    IF pos > Len(t) THEN <<>>
    ELSE IF pos < Len(t) /\ <<t[pos], t[pos + 1]>> \in DOMAIN to_vowel_map
    THEN <<to_vowel_map[<<t[pos], t[pos + 1]>>]>> \o OneScan(t, pos + 2)
    ELSE <<IF t[pos] \in DOMAIN to_vowel_table THEN to_vowel_table[t[pos]]
           ELSE t[pos]>> \o OneScan(t, pos + 1)

(* C5: katakana_to_vowels(text) is the result of that one scan.            *)
C5_OneScan ==
    vowels_out.status = "returned" =>
        /\ vowels_out.value = OneScan(text_arg, 1)
        /\ text_arg \in DOMAIN to_vowel_map =>
              vowels_out.value = <<to_vowel_map[text_arg]>>

(* "シュェ" gives "ウエ": the ウ written for シュ is not joined with ェ.       *)
C5_Witness ==
    /\ vowels_out.status = "returned"
    /\ text_arg = <<12471, 12517, 12455>>
    /\ vowels_out.value = <<12454, 12456>>

-----------------------------------------------------------------------------
(* Claims about TextModel.                                                 *)

PlotDone == call.op = "plot" /\ call.status = "returned"

OutEdges(v) == {e \in 1..Len(edges) : edges[e][1] = v}

RECURSIVE SumOfWeights(_)
SumOfWeights(es) ==
    IF es = {} THEN 0
    ELSE LET e == CHOOSE x \in es : TRUE
         IN  weights[e][1] + SumOfWeights(es \ {e})

(* The successor of state st by word w, from the description of the        *)
(* traversal: the END sentinel, or the window slid by one.                 *)
Successor(st, w) == IF w = END THEN <<END>> ELSE Tail(st) \o <<w>>

(* C6: when plot is done, the edges recorded as leaving a state of the     *)
(* trained model are one per transition of the state, each weighted        *)
(* rawWeight / (sum of the state's rawWeights), so that they sum to 1.     *)
C6_ProbabilitiesSumToOne ==
    PlotDone =>
        /\ Len(weights) = Len(edges)
        /\ \A st \in DOMAIN _model.chain :
             LET items == _model.chain[st]
                 out == OutEdges(vertices[st])
                 raw == [k \in 1..Len(items) |-> items[k][2]]
             IN  /\ st \in DOMAIN vertices
                 /\ Cardinality(out) = Len(items)
                 /\ \A k \in 1..Len(items) :
                      \E e \in out :
                         /\ edges[e][2] = vertices[Successor(st, items[k][1])]
                         /\ weights[e][1] = raw[k]
                 /\ \A e \in out : weights[e][2] = SumOfWeights(out)

(* A state with two transitions, of probabilities 2/3 and 1/3.             *)
C6_Witness ==
    /\ PlotDone
    /\ \E st \in DOMAIN _model.chain :
         /\ Len(_model.chain[st]) = 2
         /\ {weights[e] : e \in OutEdges(vertices[st])} = {<<2, 3>>, <<1, 3>>}

(* The states reachable from BEGIN in the table m, breadth first.          *)
RECURSIVE Bfs(_, _, _)
Bfs(m, seen, frontier) ==
    IF frontier = {} THEN seen
    ELSE LET next == UNION {{Successor(st, m[st][k][1]) : k \in 1..Len(m[st])} :
                               st \in frontier \cap DOMAIN m}
         IN  Bfs(m, seen \cup next, next \ seen)

ReachableStates ==
    Bfs(_model.chain, {[k \in 1..(_model.state_size) |-> BEGIN]},
        {[k \in 1..(_model.state_size) |-> BEGIN]})

Traversing == call.op = "plot" /\ call.status = "running"

(* C7: the traversal registers no state twice, ends, and has then          *)
(* registered exactly the states reachable from BEGIN.                     *)
C7_VisitsReachableOnce ==
    /\ [](/\ NoDuplicates(visits)
          /\ Range(visits) = DOMAIN vertices
          /\ PlotDone => DOMAIN vertices = ReachableStates)
    /\ (Traversing ~> PlotDone)

(* A chain of order 1 with the cycle a -> b -> a: BEGIN, a, b and END are  *)
(* registered, each once.                                                  *)
C7_Witness ==
    /\ PlotDone
    /\ _model.state_size = 1
    /\ {<<"a">>, <<"b">>} \subseteq DOMAIN _model.chain
    /\ \E i \in 1..Len(_model.chain[<<"a">>]) : _model.chain[<<"a">>][i][1] = "b"
    /\ \E i \in 1..Len(_model.chain[<<"b">>]) : _model.chain[<<"b">>][i][1] = "a"
    /\ DOMAIN vertices = {<<BEGIN>>, <<"a">>, <<"b">>, <<END>>}
    /\ Len(visits) = 4

(* C8: generate and plot raise "model is not yet trained" exactly when fit *)
(* was never called, and then have done nothing.                           *)
C8_NotTrained ==
    /\ call.op \in {"generate", "plot"} => (call.status = "raised" <=> fits = 0)
    /\ call.status = "raised" =>
         /\ call.value = "model is not yet trained"
         /\ _compiled_model = None
         /\ stack = <<>> /\ vertices = <<>> /\ edges = <<>> /\ weights = <<>>

(* plot raised on a model never fitted.                                    *)
C8_Witness ==
    /\ call.op = "plot"
    /\ call.status = "raised"
    /\ fits = 0

(* The calls of traverse in progress that found their state unvisited and  *)
(* are in its loop, each with the state it was called from.                *)
Expanding == {i \in 2..Len(stack) : stack[i].k >= 1}

EdgeOf(from, to) == <<vertices[from], vertices[to]>>

Positions(edge) == {e \in 1..Len(edges) : edges[e] = edge}

(* C11 as stated: the edge into a state found unvisited is in the list     *)
(* before any edge leaving that state.                                     *)
C11_PreOrder ==
    \A i \in Expanding :
        \A e \in OutEdges(vertices[stack[i].state]) :
            \E p \in Positions(EdgeOf(stack[i - 1].state, stack[i].state)) : p < e

(* C11, amended: the edge into a state found unvisited is appended after   *)
(* the call for that state has returned (post-order): it is not in the     *)
(* list while that state is expanded, and an edge in the list leads to a   *)
(* state whose own edges are all in the list, or which is still expanded.  *)
(* Each transition has one edge, also when its target was visited before.  *)
C11_PostOrder ==
    /\ \A i \in Expanding :
          Positions(EdgeOf(stack[i - 1].state, stack[i].state)) = {}
    /\ \A e \in 1..Len(edges) :
          \E to \in DOMAIN vertices :
              /\ vertices[to] = edges[e][2]
              /\ \/ \E i \in 1..Len(stack) : stack[i].state = to /\ stack[i].k >= 1
                 \/ to \notin DOMAIN _model.chain
                 \/ Cardinality(OutEdges(edges[e][2])) = Len(_model.chain[to])
    /\ PlotDone =>
          \A st \in DOMAIN _model.chain :
              \A k \in 1..Len(_model.chain[st]) :
                  Cardinality(Positions(EdgeOf(st,
                      Successor(st, _model.chain[st][k][1])))) = 1

(* The sentences "a" and "a b", order 1: BEGIN is 0, a is 1, END is 2 and  *)
(* b is 3.  The edge BEGIN -> a is the last one, and b -> END is recorded  *)
(* although END was visited before.                                        *)
C11_Witness ==
    /\ PlotDone
    /\ _model.state_size = 1
    /\ edges = << <<1, 2>>, <<3, 2>>, <<1, 3>>, <<0, 1>> >>

(* The label of a state, from the description of the labelling: "BEGIN"   *)
(* for the all-BEGIN state, "END" for a state with the END marker, else    *)
(* the words after the BEGIN padding, joined by commas.                    *)
RECURSIVE LabelFrom(_, _)
LabelFrom(st, k) ==
    IF k = Len(st) THEN st[k]
    ELSE IF st[k] = BEGIN THEN LabelFrom(st, k + 1)
    ELSE st[k] \o "," \o LabelFrom(st, k + 1)

Label(st) ==
    IF st = [k \in 1..Len(st) |-> BEGIN] THEN "BEGIN"
    ELSE IF END \in Range(st) THEN "END"
    ELSE LabelFrom(st, 1)

(* C12 as stated: the graph has one node per distinct label, so no two     *)
(* nodes of the graph carry the same label.                                *)
C12_OneNodePerLabel ==
    PlotDone =>
        /\ call.graph.vcount = Cardinality(Range(call.graph.vertex_label))
        /\ NoDuplicates(call.graph.vertex_label)

(* C12, amended: the graph has one node per registered state, labelled     *)
(* with the label of that state; states of equal label stay apart.         *)
C12_OneNodePerState ==
    PlotDone =>
        /\ call.graph.vcount = Cardinality(ReachableStates)
        /\ Len(call.graph.vertex_label) = call.graph.vcount
        /\ \A st \in ReachableStates :
              /\ st \in DOMAIN vertices
              /\ vertices[st] \in 0..(call.graph.vcount - 1)
              /\ call.graph.vertex_label[vertices[st] + 1] = Label(st)
        /\ \A st1, st2 \in ReachableStates :
              vertices[st1] = vertices[st2] => st1 = st2
        /\ call.graph.es = edges

(* The sentences "a,b" and "a b", order 2: the states (BEGIN, "a,b") and   *)
(* ("a", "b") are two nodes, both labelled "a,b".                          *)
C12_Witness ==
    /\ PlotDone
    /\ {<<BEGIN, "a,b">>, <<"a", "b">>} \subseteq DOMAIN vertices
    /\ vertices[<<BEGIN, "a,b">>] # vertices[<<"a", "b">>]
    /\ call.graph.vertex_label[vertices[<<BEGIN, "a,b">>] + 1] = "a,b"
    /\ call.graph.vertex_label[vertices[<<"a", "b">>] + 1] = "a,b"
    /\ call.graph.vertex_label[1] = "BEGIN"
    /\ \E i \in 1..call.graph.vcount : call.graph.vertex_label[i] = "END"

-----------------------------------------------------------------------------
(* The specifications: a TextModel and its calls (Spec), calls of either   *)
(* on lists (SpecEither), either and matches of its pattern on sets        *)
(* (SpecMatch), and calls of katakana_to_vowels (SpecVowels).              *)

Init ==
    /\ _state_size \in StateSizes
    /\ ModelIdle
    /\ strings = <<>> /\ EitherIdle
    /\ text_arg = <<>> /\ VowelsIdle

Next ==
    \/ \E corpus \in Corpora : Fit(corpus)
    \/ \E sentence \in Sentences : Generate(sentence)
    \/ Plot
    \/ TraverseEnter
    \/ TraverseCall
    \/ TraverseReturn
    \/ PlotReturn

Spec == Init /\ [][Next]_vars

(* A call of plot, once started, runs on: traverse takes its next step and *)
(* plot returns.                                                           *)
SpecFair ==
    /\ Spec
    /\ WF_vars(TraverseEnter \/ TraverseCall \/ TraverseReturn \/ PlotReturn)

InitEither ==
    /\ strings \in Lists /\ EitherIdle
    /\ text_arg = <<>> /\ VowelsIdle
    /\ _state_size = 2 /\ ModelIdle

SpecEither == InitEither /\ [][CallEither]_vars

InitMatch ==
    /\ strings \in Enumerations /\ EitherIdle
    /\ text_arg = <<>> /\ VowelsIdle
    /\ _state_size = 2 /\ ModelIdle

NextMatch ==
    \/ CallEither
    \/ \E t \in TextPool : CallMatch(t)

SpecMatch == InitMatch /\ [][NextMatch]_vars

InitVowels ==
    /\ text_arg \in Texts /\ VowelsIdle
    /\ strings = <<>> /\ EitherIdle
    /\ _state_size = 2 /\ ModelIdle

SpecVowels == InitVowels /\ [][CallKatakanaToVowels]_vars

=============================================================================
